---- MODULE Spec2Model ----
(***************************************************************************)
(* Model of the adapters of the mcp-servers repository:                     *)
(*   - the Redash client's executeQueryAndWait / waitForJob polling loop    *)
(*     and the execute_query tool handler that wraps it;                    *)
(*   - the Redash server's add_widget_to_dashboard tool;                    *)
(*   - the PostgreSQL server's startup (demo-mode decision), its four       *)
(*     tool handlers and its SIGINT/SIGTERM handlers;                       *)
(*   - the Kubernetes server's exec_in_pod tool.                            *)
(* Every await of the source is a separate step, so that whatever the       *)
(* event loop can interleave there is interleaved here.                     *)
(***************************************************************************)
EXTENDS Integers, Sequences, FiniteSets, TLC

(* ---------------------------------------------------------------------- *)
(* Bounds                                                                  *)
(* ---------------------------------------------------------------------- *)
\* how many reported job statuses the trace variable `reported` keeps
MaxTrace == 4
\* query result ids the remote hands out are 1..MaxResultId
MaxResultId == 2
\* tool calls the PostgreSQL server receives in one run
MaxCalls == 3
\* tool handlers that may be suspended at pool.query at the same time
MaxInflight == 2
\* termination signals delivered to the PostgreSQL server in one run
MaxSignals == 2
\* pod names have 1..MaxNameLen characters, find_pods patterns 0..MaxPatternLen
MaxNameLen == 3
MaxPatternLen == 3
\* most lines of a text written by write_pdf: two full pages and one line more
MaxLines == 77
\* the empty line of a text, if it has one, is among its first MaxBlank lines
MaxBlank == 2
\* most files of a pull request
MaxFiles == 2

(* ---------------------------------------------------------------------- *)
(* Redash client: program constants and value sets                         *)
(* ---------------------------------------------------------------------- *)
\* waitForJob(jobId, pollInterval = 1000, maxAttempts = 60)
pollInterval == 1000
maxAttempts == 60

PENDING == 1
STARTED == 2
SUCCESS == 3
FAILURE == 4
CANCELLED == 5
JobStatus == {PENDING, STARTED, SUCCESS, FAILURE, CANCELLED}

\* an absent (undefined / null) string field of a remote reply
None == "undefined"
\* an absent query_result / query_result_id; like undefined it is falsy in
\* `if (execResponse.query_result)` and `if (!job.query_result_id)`
NoResultId == 0
ResultIds == 1..MaxResultId
\* job.error as the remote sets it: absent, or a message
JobErrors == {None, "division by zero"}
Formats == {"json", "csv"}

\* the variables getConfig reads
redashEnvVars == {"REDASH_URL", "REDASH_API_KEY"}
\* getConfig throws: if (!url || !apiKey)
ConfigMissing(e) == e # redashEnvVars
ConfigError == "Missing required environment variables: REDASH_URL and REDASH_API_KEY must be set"

\* JSON.stringify(value, null, 2): the indented JSON text of the named value
JSONstringify(value) == "json of " \o value
\* the body of GET /api/query_results/<id>.csv: the CSV text of that result
CsvText(id) == "csv of query_result " \o ToString(id)

\* a RedashJob as the remote serialises it (the single job of the run is "j1")
Job(status, query_result_id, error) ==
    [id |-> "j1", status |-> status, query_result_id |-> query_result_id, error |-> error]

\* the job descriptors the remote can hold: a result id only on SUCCESS (and
\* possibly missing there), an error message only on FAILURE
RemoteJobs ==
    {Job(s, NoResultId, None) : s \in {PENDING, STARTED, CANCELLED}}
      \cup {Job(SUCCESS, r, None) : r \in ResultIds \cup {NoResultId}}
      \cup {Job(FAILURE, NoResultId, e) : e \in JobErrors}
\* no job (execResponse.job undefined, or nothing polled yet)
NoJob == [id |-> None, status |-> 0, query_result_id |-> NoResultId, error |-> None]

NoEnvelope == [content |-> << >>, isError |-> FALSE]
NoOutcome == [kind |-> "pending", message |-> "", seconds |-> 0, result |-> NoResultId, fromCache |-> FALSE]

VARIABLES
    rpc,          \* where the execute_query handler stands (which await it is suspended at)
    args,         \* the tool call's wait_for_result and format
    rjob,         \* the job as the remote holds it now (NoJob before a job exists)
    execResponse, \* reply of executeQuery: [query_result, job]
    job,          \* the job returned by the last getJobStatus
    attempts,     \* waitForJob's counter
    polls,        \* number of getJobStatus requests issued
    polling,      \* number of getJobStatus requests awaiting their reply
    reported,     \* statuses the remote reported for the job, in order (first MaxTrace)
    waited,       \* milliseconds spent in setTimeout so far
    sincePoll,    \* milliseconds spent in setTimeout since the last getJobStatus was issued
    fetched,      \* result ids requested through getQueryResult, in order
    outcome,      \* how executeQueryAndWait ended
    envelope      \* what the tool handler returned to the caller

redashVars == << rpc, args, rjob, execResponse, job, attempts, polls, polling,
                 reported, waited, sincePoll, fetched, outcome, envelope >>

VARIABLES
    env,          \* the required environment variables that are set (non-empty)
    demoMode,     \* let demoMode = false
    spc,          \* where the process stands: "load", the await startServer is at, "serving", "exited"
    check,        \* the startup connectivity check: "none", "pending", "ok", "failed"
    connects,     \* pool.connect() calls
    releases,     \* client.release() calls
    queries,      \* pool.query() calls
    endCalls,     \* pool.end() calls
    ending,       \* signal handlers suspended at `await pool.end()`, oldest first
    signals,      \* signals delivered so far
    calls,        \* tool calls received so far
    inflight,     \* requests whose handler is suspended at `await pool.query`, oldest first
    response,     \* the last tool reply sent: [tool, arg, content, isError]
    exit,         \* process.exit: [code, by]
    stdout        \* the distinct lines written to standard output so far

pgVars == << env, demoMode, spc, check, connects, releases, queries, endCalls, ending,
             signals, calls, inflight, response, exit, stdout >>

VARIABLES
    wpc,          \* where the add_widget_to_dashboard handler stands
    wargs,        \* its arguments: dashboard_id, visualization_id, text, width
    wbody,        \* the body POSTed to /api/widgets
    wenvelope     \* what the handler returned to the caller

widgetVars == << wpc, wargs, wbody, wenvelope >>

VARIABLES
    kpc,          \* where the exec_in_pod handler stands
    kargs,        \* its arguments: pod_name, command, container_name
    containerName,\* execCommandInPod's containerName once it is known
    argv,         \* the arguments kubectl was spawned with
    execResult,   \* the ExecResult execCommandInPod resolved with
    kenvelope     \* what the handler returned to the caller

k8sVars == << kpc, kargs, containerName, argv, execResult, kenvelope >>

VARIABLES
    fpc,          \* where the find_pods handler stands
    namePattern,  \* its name_pattern, as a sequence of characters
    items,        \* allPods.items, by name, as listNamespacedPod returned them
    filteredItems,\* the items findPodsByName kept
    fenvelope     \* what the handler returned to the caller

findVars == << fpc, namePattern, items, filteredItems, fenvelope >>

VARIABLES
    dpc,          \* where the lease-pdf server's write_pdf / read_pdf stand
    lines,        \* text.split("\n") of the text given to write_pdf
    lineIndex,    \* i + 1 of addMultiPageText's loop: the line drawn next
    currentLineOnPage, \* lines drawn so far on the current page
    pdfDoc,       \* the document: per page, the strings drawn and their y
    pdfData,      \* what pdfParse made of the document, page by page
    penvelope     \* what the last handler returned to the caller

pdfVars == << dpc, lines, lineIndex, currentLineOnPage, pdfDoc, pdfData, penvelope >>

VARIABLES
    gpc,          \* where the summarize_pr_diff handler stands
    gargs,        \* its arguments: pr_number, post_comment as given
    pr,           \* the pull request getPullRequest returned
    files,        \* the files getPullRequestFiles returned
    posts,        \* number of POST .../issues/<n>/comments requests sent
    posted,       \* the body of the comment sent
    genvelope     \* what the handler returned to the caller

ghVars == << gpc, gargs, pr, files, posts, posted, genvelope >>

VARIABLE received \* the replies a demo-mode PostgreSQL server's client has kept

clientVars == << received >>

VARIABLE renv     \* which of REDASH_URL, REDASH_API_KEY are set (non-empty)

\* the tools modelled after the first four, each with its own handler state
toolVars == << findVars, pdfVars, clientVars, ghVars >>

vars == << renv, redashVars, widgetVars, pgVars, k8sVars, toolVars >>

\* what the steps of one server leave alone: the other servers' processes
exceptRedash == << renv, widgetVars, pgVars, k8sVars, toolVars >>
exceptWidget == << renv, redashVars, pgVars, k8sVars, toolVars >>
exceptPg == << renv, redashVars, widgetVars, k8sVars, toolVars >>
exceptK8s == << renv, redashVars, widgetVars, pgVars, toolVars >>
\* the first four servers together
firstServers == << renv, redashVars, widgetVars, pgVars, k8sVars >>
exceptFind == << firstServers, pdfVars, clientVars, ghVars >>
exceptPdf == << firstServers, findVars, clientVars, ghVars >>
exceptClient == << firstServers, findVars, pdfVars, ghVars >>
exceptGh == << firstServers, findVars, pdfVars, clientVars >>

(* ---------------------------------------------------------------------- *)
(* Redash: pure helpers                                                    *)
(* ---------------------------------------------------------------------- *)
\* Record(reported, s): the trace of reported statuses, kept up to MaxTrace entries
Record(trace, s) == IF Len(trace) < MaxTrace THEN Append(trace, s) ELSE trace

\* new Error(message) leaving executeQueryAndWait
Thrown(message, seconds) ==
    [kind |-> "thrown", message |-> message, seconds |-> seconds, result |-> NoResultId, fromCache |-> FALSE]

\* the value executeQueryAndWait returns
Returned(result, fromCache) ==
    [kind |-> "returned", message |-> "", seconds |-> 0, result |-> result, fromCache |-> fromCache]

\* redashFetch's error for a non-2xx reply
ApiError == "Redash API error (500): upstream failure"

\* variant: the milliseconds are stated as if they were seconds
TimeoutSecondsMillis == maxAttempts * pollInterval

\* waitForJob's error after the loop
TimeoutSeconds == (maxAttempts * pollInterval) \div 1000
TimeoutError ==
    Thrown("Job j1 did not complete within " \o ToString(TimeoutSeconds) \o " seconds",
           TimeoutSeconds)

\* variant: the job's error message is dropped
FailedErrorGeneric(j) == Thrown("Query execution failed: Unknown error", 0)

\* `Query execution failed: ${job.error || "Unknown error"}`
FailedError(j) ==
    Thrown("Query execution failed: " \o (IF j.error = None THEN "Unknown error" ELSE j.error), 0)

CancelledError == Thrown("Query execution was cancelled", 0)
NoResultIdError == Thrown("Job completed but no query_result_id returned", 0)
UnexpectedError == Thrown("Unexpected response from Redash API: no job or query_result", 0)

\* variant: the catch block forgets the error flag
ErrorEnvelopeUnflagged(message) ==
    [content |-> << "Error executing query: " \o message >>, isError |-> FALSE]

\* execute_query's catch block
ErrorEnvelope(message) ==
    [content |-> << "Error executing query: " \o message >>, isError |-> TRUE]

\* execute_query's two-part success reply with wait_for_result = true
CacheInfo(o) ==
    IF o.fromCache THEN "Results returned from cache."
    ELSE "Query executed fresh (job ID: j1)."
\* variant: the csv text is passed through JSON.stringify like the json result
ResultEnvelopeAlwaysJson(o, format) ==
    [content |-> << "Query 1 executed successfully. " \o CacheInfo(o),
                    IF format = "csv" THEN JSONstringify(CsvText(o.result))
                    ELSE JSONstringify("query_result " \o ToString(o.result)) >>,
     isError |-> FALSE]

ResultEnvelope(o, format) ==
    [content |-> << "Query 1 executed successfully. " \o CacheInfo(o),
                    IF format = "csv" THEN CsvText(o.result)
                    ELSE JSONstringify("query_result " \o ToString(o.result)) >>,
     isError |-> FALSE]

\* what the handler returns for an outcome of executeQueryAndWait
EnvelopeOf(o, format) ==
    IF o.kind = "thrown" THEN ErrorEnvelope(o.message) ELSE ResultEnvelope(o, format)

(* ---------------------------------------------------------------------- *)
(* Redash: initial state                                                   *)
(* ---------------------------------------------------------------------- *)
InitRedash ==
    /\ rpc = "idle"
    /\ args = [wait_for_result |-> TRUE, format |-> "json"]
    /\ rjob = NoJob
    /\ execResponse = [query_result |-> NoResultId, job |-> NoJob]
    /\ job = NoJob
    /\ attempts = 0
    /\ polls = 0
    /\ polling = 0
    /\ reported = << >>
    /\ waited = 0
    /\ sincePoll = 0
    /\ fetched = << >>
    /\ outcome = NoOutcome
    /\ envelope = NoEnvelope
    /\ renv \in SUBSET redashEnvVars

(* ---------------------------------------------------------------------- *)
(* Redash: the execute_query handler, one action per await                 *)
(* ---------------------------------------------------------------------- *)
\* executeQueryAndWait ends with outcome o; the handler turns it into its reply
Finish(o) ==
    /\ outcome' = o
    /\ envelope' = EnvelopeOf(o, args.format)
    /\ rpc' = "done"

\* getQueryResult(id, format) is requested
RequestResult(id) ==
    /\ fetched' = Append(fetched, id)
    /\ rpc' = "getQueryResult"
    /\ UNCHANGED << outcome, envelope >>

\* the tool is called: the handler starts and awaits executeQuery, whose
\* redashFetch calls getConfig first: with a variable missing it throws before
\* any request is sent and the handler's catch replies
CallExecuteQuery(wait_for_result, format) ==
    /\ rpc = "idle"
    /\ UNCHANGED exceptRedash
    /\ args' = [wait_for_result |-> wait_for_result, format |-> format]
    /\ IF ConfigMissing(renv)
       THEN /\ rpc' = "done"
            /\ envelope' = ErrorEnvelope(ConfigError)
            /\ outcome' = IF wait_for_result THEN Thrown(ConfigError, 0) ELSE outcome
       ELSE /\ rpc' = "executeQuery"
            /\ UNCHANGED << outcome, envelope >>
    /\ UNCHANGED << rjob, execResponse, job, attempts, polls, polling, reported,
                    waited, sincePoll, fetched >>

\* executeQuery's request fails (redashFetch throws); the handler's catch replies
ExecuteQueryFails ==
    /\ rpc = "executeQuery"
    /\ UNCHANGED exceptRedash
    /\ Finish(Thrown(ApiError, 0))
    /\ UNCHANGED << args, rjob, execResponse, job, attempts, polls, polling, reported,
                    waited, sincePoll, fetched >>

\* the reply holds a ready query_result (cache hit)
ExecuteQueryCached(r) ==
    /\ rpc = "executeQuery"
    /\ UNCHANGED exceptRedash
    /\ execResponse' = [query_result |-> r, job |-> NoJob]
    /\ IF ~args.wait_for_result
       THEN /\ envelope' = [content |-> << "Query 1 returned cached results.",
                                           JSONstringify("query_result " \o ToString(r)) >>,
                            isError |-> FALSE]
            /\ rpc' = "done"
            /\ UNCHANGED << outcome, fetched >>
       ELSE IF args.format = "csv"
            THEN RequestResult(r)
            ELSE Finish(Returned(r, TRUE)) /\ UNCHANGED fetched
    /\ UNCHANGED << args, rjob, job, attempts, polls, polling, reported, waited, sincePoll >>

\* variant: a descriptor that is already terminal is acted on at once, unpolled
ExecuteQueryJobDirect(j) ==
    /\ rpc = "executeQuery"
    /\ UNCHANGED exceptRedash
    /\ execResponse' = [query_result |-> NoResultId, job |-> j]
    /\ rjob' = j
    /\ reported' = Record(reported, j.status)
    /\ IF ~args.wait_for_result
       THEN /\ envelope' = [content |-> << "Query 1 execution started. Job ID: j1. Use get_job_status to check progress.",
                                           JSONstringify("job j1") >>,
                            isError |-> FALSE]
            /\ rpc' = "done"
            /\ UNCHANGED << attempts, fetched, outcome >>
       ELSE /\ attempts' = 0
            /\ IF j.status < 3
               THEN rpc' = "waitForJob" /\ UNCHANGED << envelope, fetched, outcome >>
               ELSE IF j.status = FAILURE THEN Finish(FailedError(j)) /\ UNCHANGED fetched
               ELSE IF j.status = CANCELLED THEN Finish(CancelledError) /\ UNCHANGED fetched
               ELSE IF j.query_result_id = NoResultId
                    THEN Finish(NoResultIdError) /\ UNCHANGED fetched
               ELSE RequestResult(j.query_result_id)
    /\ UNCHANGED << args, job, polls, polling, waited, sincePoll >>

\* the reply holds a job descriptor j: waitForJob(execResponse.job.id) starts
ExecuteQueryJob(j) ==
    /\ rpc = "executeQuery"
    /\ UNCHANGED exceptRedash
    /\ execResponse' = [query_result |-> NoResultId, job |-> j]
    /\ rjob' = j
    /\ reported' = Record(reported, j.status)
    /\ IF ~args.wait_for_result
       THEN /\ envelope' = [content |-> << "Query 1 execution started. Job ID: j1. Use get_job_status to check progress.",
                                           JSONstringify("job j1") >>,
                            isError |-> FALSE]
            /\ rpc' = "done"
            /\ UNCHANGED << attempts >>
       ELSE /\ attempts' = 0
            /\ rpc' = "waitForJob"
            /\ UNCHANGED << envelope >>
    /\ UNCHANGED << args, job, polls, polling, waited, sincePoll, fetched, outcome >>

\* variant: the empty reply is passed on as if it were a result
ExecuteQueryEmptyReturns ==
    /\ rpc = "executeQuery"
    /\ UNCHANGED exceptRedash
    /\ IF ~args.wait_for_result
       THEN /\ envelope' = [content |-> << "Unexpected response from Redash API" >>,
                            isError |-> TRUE]
            /\ rpc' = "done"
            /\ UNCHANGED outcome
       ELSE Finish(Returned(NoResultId, FALSE))
    /\ UNCHANGED << args, rjob, execResponse, job, attempts, polls, polling, reported,
                    waited, sincePoll, fetched >>

\* the reply holds neither a query_result nor a job
ExecuteQueryEmpty ==
    /\ rpc = "executeQuery"
    /\ UNCHANGED exceptRedash
    /\ IF ~args.wait_for_result
       THEN /\ envelope' = [content |-> << "Unexpected response from Redash API" >>,
                            isError |-> TRUE]
            /\ rpc' = "done"
            /\ UNCHANGED outcome
       ELSE Finish(UnexpectedError)
    /\ UNCHANGED << args, rjob, execResponse, job, attempts, polls, polling, reported,
                    waited, sincePoll, fetched >>

\* variant: the loop admits one attempt too many (attempts <= maxAttempts)
WaitForJobLoopInclusive ==
    /\ rpc = "waitForJob"
    /\ UNCHANGED exceptRedash
    /\ IF attempts <= maxAttempts
       THEN /\ polls' = polls + 1
            /\ polling' = polling + 1
            /\ sincePoll' = 0
            /\ rpc' = "getJobStatus"
            /\ UNCHANGED << outcome, envelope >>
       ELSE /\ Finish(TimeoutError)
            /\ UNCHANGED << polls, polling, sincePoll >>
    /\ UNCHANGED << args, rjob, execResponse, job, attempts, reported, waited, fetched >>

\* head of waitForJob's loop: while (attempts < maxAttempts) getJobStatus, else throw
WaitForJobLoop ==
    /\ rpc = "waitForJob"
    /\ UNCHANGED exceptRedash
    /\ IF attempts < maxAttempts
       THEN /\ polls' = polls + 1
            /\ polling' = polling + 1
            /\ sincePoll' = 0
            /\ rpc' = "getJobStatus"
            /\ UNCHANGED << outcome, envelope >>
       ELSE /\ Finish(TimeoutError)
            /\ UNCHANGED << polls, polling, sincePoll >>
    /\ UNCHANGED << args, rjob, execResponse, job, attempts, reported, waited, fetched >>

\* variant: the result id is read from the submission's descriptor, not the polled job
AfterWaitForJobStale(j) ==
    IF j.status = FAILURE THEN Finish(FailedError(j)) /\ UNCHANGED fetched
    ELSE IF j.status = CANCELLED THEN Finish(CancelledError) /\ UNCHANGED fetched
    ELSE IF execResponse.job.query_result_id = NoResultId
         THEN Finish(NoResultIdError) /\ UNCHANGED fetched
    ELSE RequestResult(execResponse.job.query_result_id)

\* executeQueryAndWait after waitForJob returned j (status >= 3)
AfterWaitForJob(j) ==
    IF j.status = FAILURE THEN Finish(FailedError(j)) /\ UNCHANGED fetched
    ELSE IF j.status = CANCELLED THEN Finish(CancelledError) /\ UNCHANGED fetched
    ELSE IF j.query_result_id = NoResultId THEN Finish(NoResultIdError) /\ UNCHANGED fetched
    ELSE RequestResult(j.query_result_id)

\* variant: only statuses above 3 end the loop (job.status > 3)
GetJobStatusReplyStrict ==
    /\ rpc = "getJobStatus"
    /\ UNCHANGED exceptRedash
    /\ polling' = polling - 1
    /\ job' = rjob
    /\ reported' = Record(reported, rjob.status)
    /\ IF rjob.status > 3
       THEN AfterWaitForJob(rjob) /\ UNCHANGED attempts
       ELSE /\ attempts' = attempts + 1
            /\ rpc' = "setTimeout"
            /\ UNCHANGED << fetched, outcome, envelope >>
    /\ UNCHANGED << args, rjob, execResponse, polls, waited, sincePoll >>

\* getJobStatus resolves with the job as the remote holds it
GetJobStatusReply ==
    /\ rpc = "getJobStatus"
    /\ UNCHANGED exceptRedash
    /\ polling' = polling - 1
    /\ job' = rjob
    /\ reported' = Record(reported, rjob.status)
    /\ IF rjob.status >= 3
       THEN AfterWaitForJob(rjob) /\ UNCHANGED attempts
       ELSE /\ attempts' = attempts + 1
            /\ rpc' = "setTimeout"
            /\ UNCHANGED << fetched, outcome, envelope >>
    /\ UNCHANGED << args, rjob, execResponse, polls, waited, sincePoll >>

\* getJobStatus rejects (redashFetch throws): the error leaves waitForJob
GetJobStatusFails ==
    /\ rpc = "getJobStatus"
    /\ UNCHANGED exceptRedash
    /\ polling' = polling - 1
    /\ Finish(Thrown(ApiError, 0))
    /\ UNCHANGED << args, rjob, execResponse, job, attempts, polls, reported, waited,
                    sincePoll, fetched >>

\* setTimeout(resolve, pollInterval) fires
TimeoutFires ==
    /\ rpc = "setTimeout"
    /\ UNCHANGED exceptRedash
    /\ waited' = waited + pollInterval
    /\ sincePoll' = sincePoll + pollInterval
    /\ rpc' = "waitForJob"
    /\ UNCHANGED << args, rjob, execResponse, job, attempts, polls, polling, reported,
                    fetched, outcome, envelope >>

\* getQueryResult resolves with the result stored under the requested id
GetQueryResultReply ==
    /\ rpc = "getQueryResult"
    /\ UNCHANGED exceptRedash
    /\ Finish(Returned(fetched[Len(fetched)], execResponse.query_result # NoResultId))
    /\ UNCHANGED << args, rjob, execResponse, job, attempts, polls, polling, reported,
                    waited, sincePoll, fetched >>

\* getQueryResult rejects
GetQueryResultFails ==
    /\ rpc = "getQueryResult"
    /\ UNCHANGED exceptRedash
    /\ Finish(Thrown(ApiError, 0))
    /\ UNCHANGED << args, rjob, execResponse, job, attempts, polls, polling, reported,
                    waited, sincePoll, fetched >>

\* the remote moves the job on: PENDING -> STARTED, or a running job ends
RemoteAdvance(j) ==
    /\ rpc \in {"waitForJob", "getJobStatus", "setTimeout"}
    /\ UNCHANGED exceptRedash
    /\ rjob.status \in {PENDING, STARTED}
    /\ j.status > rjob.status
    /\ rjob.status = PENDING => j.status # SUCCESS
    /\ rjob' = j
    /\ UNCHANGED << rpc, args, execResponse, job, attempts, polls, polling, reported,
                    waited, sincePoll, fetched, outcome, envelope >>

NextRedash ==
    \/ \E w \in BOOLEAN, f \in Formats : CallExecuteQuery(w, f)
    \/ ExecuteQueryFails
    \/ \E r \in ResultIds : ExecuteQueryCached(r)
    \/ \E j \in RemoteJobs : ExecuteQueryJob(j)
    \/ ExecuteQueryEmpty
    \/ WaitForJobLoop
    \/ GetJobStatusReply
    \/ GetJobStatusFails
    \/ TimeoutFires
    \/ GetQueryResultReply
    \/ GetQueryResultFails
    \/ \E j \in RemoteJobs : RemoteAdvance(j)

(* ---------------------------------------------------------------------- *)
(* PostgreSQL server: values                                               *)
(* ---------------------------------------------------------------------- *)
requiredEnvVars == {"POSTGRES_DB", "POSTGRES_USER", "POSTGRES_PASSWORD"}
\* requiredEnvVars.filter((envVar) => !process.env[envVar])
missingEnvVars(e) == requiredEnvVars \ e

Tables == {"users", "products", "orders"}
\* sample SQL texts for mcp__execute_query
Queries == {"SELECT * FROM Users", "select name from products", "DELETE FROM orders",
            "SHOW server_version"}
\* query.toLowerCase().includes(word), for the words the handler looks for
Includes(query, word) ==
    CASE query = "SELECT * FROM Users" -> word \in {"select", "users"}
      [] query = "select name from products" -> word \in {"select", "products"}
      [] query = "DELETE FROM orders" -> word \in {"delete"}
      [] OTHER -> FALSE

Request(tool, arg) == [tool |-> tool, arg |-> arg]
Requests ==
    {Request("mcp__get_database_info", ""), Request("mcp__list_tables", "")}
      \cup {Request("mcp__get_table_structure", t) : t \in Tables}
      \cup {Request("mcp__execute_query", q) : q \in Queries}

Reply(req, content, isError) ==
    [tool |-> req.tool, arg |-> req.arg, content |-> content, isError |-> isError]
NoReply == [tool |-> "", arg |-> "", content |-> << >>, isError |-> FALSE]
NoExit == [code |-> -1, by |-> ""]

\* columns.length of the demo structure for table_name
DemoColumns(table_name) == IF table_name \in {"users", "products"} THEN 4 ELSE 3

\* demoResult.rowCount for a query text
DemoRowCount(query) ==
    IF Includes(query, "select") /\ Includes(query, "users") THEN 2
    ELSE IF Includes(query, "select") /\ Includes(query, "products") THEN 3
    ELSE IF Includes(query, "insert") \/ Includes(query, "update") \/ Includes(query, "delete")
         THEN 1
    ELSE 0

\* the rows of the demo result
DemoRows(query) ==
    IF Includes(query, "select") /\ Includes(query, "users") THEN "john_doe, jane_smith"
    ELSE IF Includes(query, "select") /\ Includes(query, "products")
         THEN "Product A, Product B, Product C"
    ELSE ""

\* variant: the demo payloads carry the number of the request
DemoContentNumbered(req) ==
    CASE req.tool = "mcp__get_database_info" ->
            << "Running in demo mode - no actual PostgreSQL connection.",
               "database_name: demo_database, request: " \o ToString(calls) >>
      [] req.tool = "mcp__list_tables" ->
            << "Running in demo mode - showing sample tables.",
               "public.users, public.products, public.orders, request: " \o ToString(calls) >>
      [] req.tool = "mcp__get_table_structure" ->
            << "Demo structure for table " \o req.arg \o ": "
                  \o ToString(DemoColumns(req.arg)) \o " columns found.",
               "demo columns of request " \o ToString(calls) >>
      [] req.tool = "mcp__execute_query" ->
            << "Demo query executed successfully. Rows affected: "
                  \o ToString(DemoRowCount(req.arg)),
               "rows of request " \o ToString(calls) >>

\* the if (demoMode) branch of each of the four handlers
DemoContent(req) ==
    CASE req.tool = "mcp__get_database_info" ->
            << "Running in demo mode - no actual PostgreSQL connection.",
               "database_name: demo_database, current_user: demo_user, postgresql_version: PostgreSQL 14.0 (Demo Version)" >>
      [] req.tool = "mcp__list_tables" ->
            << "Running in demo mode - showing sample tables.",
               "public.users, public.products, public.orders" >>
      [] req.tool = "mcp__get_table_structure" ->
            << "Demo structure for table " \o req.arg \o ": "
                  \o ToString(DemoColumns(req.arg)) \o " columns found.",
               "demo columns of " \o (IF req.arg \in {"users", "products"} THEN req.arg ELSE "table") >>
      [] req.tool = "mcp__execute_query" ->
            << "Demo query executed successfully. Rows affected: "
                  \o ToString(DemoRowCount(req.arg)),
               "rows: " \o DemoRows(req.arg) \o ", rowCount: " \o ToString(DemoRowCount(req.arg)) >>

\* the reply built from the rows pool.query resolved with
LiveContent(req) ==
    CASE req.tool = "mcp__get_database_info" ->
            << "Connected to database: appdb as app", "row of appdb" >>
      [] req.tool = "mcp__list_tables" ->
            << "Found 1 tables.", "public.accounts" >>
      [] req.tool = "mcp__get_table_structure" ->
            << "Structure for table " \o req.arg \o ": 1 columns found.", "live columns of " \o req.arg >>
      [] req.tool = "mcp__execute_query" ->
            << "Query executed successfully. Rows affected: 1", "live rows" >>

\* the catch block of each handler
ErrorContent(req) ==
    CASE req.tool = "mcp__get_database_info" -> << "Error getting database info: connection refused" >>
      [] req.tool = "mcp__list_tables" -> << "Error listing tables: connection refused" >>
      [] req.tool = "mcp__get_table_structure" -> << "Error getting table structure: connection refused" >>
      [] req.tool = "mcp__execute_query" -> << "Error executing query: connection refused" >>

\* seq without its i-th element
Without(seq, i) == SubSeq(seq, 1, i - 1) \o SubSeq(seq, i + 1, Len(seq))

(* ---------------------------------------------------------------------- *)
(* PostgreSQL server: initial state (module evaluated, startServer not yet  *)
(* run) and actions                                                         *)
(* ---------------------------------------------------------------------- *)
InitPg ==
    /\ env \in SUBSET requiredEnvVars
    /\ demoMode = FALSE
    /\ spc = "load"
    /\ check = "none"
    /\ connects = 0
    /\ releases = 0
    /\ queries = 0
    /\ endCalls = 0
    /\ ending = << >>
    /\ signals = 0
    /\ calls = 0
    /\ inflight = << >>
    /\ response = NoReply
    /\ exit = NoExit
    /\ stdout = {}

\* console.log(line): the line goes to standard output
ConsoleLog(line) == stdout' = stdout \cup {line}

\* the transport writes a JSON-RPC response line to standard output
Frame == "JSON-RPC response"
SendFrame == stdout' = stdout \cup {Frame}

\* process.exit(code)
ProcessExit(code, by) ==
    /\ spc' = "exited"
    /\ exit' = [code |-> code, by |-> by]

\* variant: demo mode only when every required variable is missing
StartServerAllMissing ==
    /\ spc = "load"
    /\ IF missingEnvVars(env) = requiredEnvVars
       THEN /\ demoMode' = TRUE
            /\ spc' = "server.connect"
            /\ UNCHANGED << check, connects >>
       ELSE /\ connects' = connects + 1
            /\ check' = "pending"
            /\ spc' = "pool.connect"
            /\ UNCHANGED demoMode
    /\ UNCHANGED << env, releases, queries, endCalls, ending, signals, calls, inflight,
                    response, exit >>
    /\ UNCHANGED stdout
    /\ UNCHANGED exceptPg

\* startServer up to its first await: the environment check
StartServer ==
    /\ spc = "load"
    /\ IF missingEnvVars(env) # {}
       THEN /\ demoMode' = TRUE
            /\ spc' = "server.connect"
            /\ UNCHANGED << check, connects >>
       ELSE /\ connects' = connects + 1
            /\ check' = "pending"
            /\ spc' = "pool.connect"
            /\ UNCHANGED demoMode
    /\ UNCHANGED << env, releases, queries, endCalls, ending, signals, calls, inflight,
                    response, exit >>
    /\ UNCHANGED stdout
    /\ UNCHANGED exceptPg

\* pool.connect() resolves: the client is released at once
PoolConnectResolves ==
    /\ spc = "pool.connect"
    /\ check' = "ok"
    /\ releases' = releases + 1
    /\ spc' = "server.connect"
    /\ UNCHANGED << env, demoMode, connects, queries, endCalls, ending, signals, calls,
                    inflight, response, exit >>
    /\ ConsoleLog("Successfully connected to PostgreSQL")
    /\ UNCHANGED exceptPg

\* variant: no inner try/catch, the rejection reaches the outer catch
PoolConnectRejectsAborts ==
    /\ spc = "pool.connect"
    /\ check' = "failed"
    /\ ProcessExit(1, "startServer")
    /\ UNCHANGED << env, demoMode, releases, connects, queries, endCalls, ending, signals,
                    calls, inflight, response >>
    /\ UNCHANGED stdout
    /\ UNCHANGED exceptPg

\* pool.connect() rejects: the inner catch switches to demo mode
PoolConnectRejects ==
    /\ spc = "pool.connect"
    /\ check' = "failed"
    /\ demoMode' = TRUE
    /\ spc' = "server.connect"
    /\ UNCHANGED << env, releases, connects, queries, endCalls, ending, signals, calls,
                    inflight, response, exit >>
    /\ UNCHANGED stdout
    /\ UNCHANGED exceptPg

\* server.connect(transport) resolves: requests are received from now on
ServerConnectResolves ==
    /\ spc = "server.connect"
    /\ spc' = "serving"
    /\ UNCHANGED << env, demoMode, check, releases, connects, queries, endCalls, ending,
                    signals, calls, inflight, response, exit >>
    /\ ConsoleLog("PostgreSQL Server started in " \o (IF demoMode THEN "DEMO" ELSE "PRODUCTION")
                    \o " mode and ready to process requests")
    /\ UNCHANGED exceptPg

\* server.connect(transport) rejects: the outer catch exits with code 1
ServerConnectRejects ==
    /\ spc = "server.connect"
    /\ ProcessExit(1, "startServer")
    /\ UNCHANGED << env, demoMode, check, releases, connects, queries, endCalls, ending,
                    signals, calls, inflight, response >>
    /\ UNCHANGED stdout
    /\ UNCHANGED exceptPg

\* variant: a handler in demo mode after a failed check goes back to the live path
ToolCallRetry(req) ==
    /\ spc = "serving"
    /\ calls < MaxCalls
    /\ calls' = calls + 1
    /\ IF demoMode /\ check # "failed"
       THEN /\ response' = Reply(req, DemoContent(req), FALSE)
            /\ SendFrame
            /\ UNCHANGED << queries, inflight, demoMode >>
       ELSE /\ Len(inflight) < MaxInflight
            /\ demoMode' = FALSE
            /\ queries' = queries + 1
            /\ inflight' = Append(inflight, req)
            /\ UNCHANGED << response, stdout >>
    /\ UNCHANGED << env, spc, check, releases, connects, endCalls, ending, signals, exit >>
    /\ UNCHANGED exceptPg

\* a tool request arrives and its handler runs up to its first await (or its return)
ToolCall(req) ==
    /\ spc = "serving"
    /\ calls < MaxCalls
    /\ calls' = calls + 1
    /\ IF demoMode
       THEN /\ response' = Reply(req, DemoContent(req), FALSE)
            /\ SendFrame
            /\ UNCHANGED << queries, inflight >>
       ELSE /\ Len(inflight) < MaxInflight
            /\ queries' = queries + 1
            /\ inflight' = Append(inflight, req)
            /\ UNCHANGED << response, stdout >>
    /\ UNCHANGED << env, demoMode, spc, check, releases, connects, endCalls, ending, signals, exit >>
    /\ UNCHANGED exceptPg

\* pool.query of the i-th suspended handler resolves
QueryResolves(i) ==
    /\ spc = "serving"
    /\ i \in 1..Len(inflight)
    /\ response' = Reply(inflight[i], LiveContent(inflight[i]), FALSE)
    /\ inflight' = Without(inflight, i)
    /\ UNCHANGED << env, demoMode, spc, check, releases, connects, queries, endCalls, ending,
                    signals, calls, exit >>
    /\ SendFrame
    /\ UNCHANGED exceptPg

\* variant: the handler has no try/catch, the rejection ends the process unanswered
QueryRejectsUncaught(i) ==
    /\ spc = "serving"
    /\ i \in 1..Len(inflight)
    /\ inflight' = Without(inflight, i)
    /\ ProcessExit(1, "unhandledRejection")
    /\ UNCHANGED << env, demoMode, check, releases, connects, queries, endCalls, ending,
                    signals, calls, response >>
    /\ UNCHANGED stdout
    /\ UNCHANGED exceptPg

\* variant: a failing query makes the handler fall back to demo mode
QueryRejectsFallsBack(i) ==
    /\ spc = "serving"
    /\ i \in 1..Len(inflight)
    /\ demoMode' = TRUE
    /\ response' = Reply(inflight[i], DemoContent(inflight[i]), FALSE)
    /\ inflight' = Without(inflight, i)
    /\ UNCHANGED << env, spc, check, releases, connects, queries, endCalls, ending,
                    signals, calls, exit >>
    /\ SendFrame
    /\ UNCHANGED exceptPg

\* pool.query of the i-th suspended handler rejects: the handler's catch replies
QueryRejects(i) ==
    /\ spc = "serving"
    /\ i \in 1..Len(inflight)
    /\ response' = Reply(inflight[i], ErrorContent(inflight[i]), TRUE)
    /\ inflight' = Without(inflight, i)
    /\ UNCHANGED << env, demoMode, spc, check, releases, connects, queries, endCalls, ending,
                    signals, calls, exit >>
    /\ SendFrame
    /\ UNCHANGED exceptPg

\* process.on("SIGINT" / "SIGTERM"): the handler runs up to `await pool.end()`,
\* or straight to process.exit(0) in demo mode
Signal(sig) ==
    /\ spc \notin {"load", "exited"}
    /\ signals < MaxSignals
    /\ signals' = signals + 1
    /\ IF ~demoMode
       THEN /\ endCalls' = endCalls + 1
            /\ ending' = Append(ending, sig)
            /\ UNCHANGED << spc, exit >>
       ELSE /\ ProcessExit(0, sig)
            /\ UNCHANGED << endCalls, ending >>
    /\ UNCHANGED << env, demoMode, check, releases, connects, queries, calls, inflight, response >>
    /\ ConsoleLog("Received " \o sig \o " signal. Shutting down...")
    /\ UNCHANGED exceptPg

\* pool.end() of the i-th suspended signal handler resolves: process.exit(0)
PoolEndResolves(i) ==
    /\ spc # "exited"
    /\ i \in 1..Len(ending)
    /\ ProcessExit(0, ending[i])
    /\ ending' = Without(ending, i)
    /\ UNCHANGED << env, demoMode, check, releases, connects, queries, endCalls, signals, calls,
                    inflight, response >>
    /\ ConsoleLog("PostgreSQL connection pool closed")
    /\ UNCHANGED exceptPg

\* a pool.end() issued while an earlier one is pending rejects: that handler ends
\* with an unhandled rejection, which either kills the process (code 1) or is
\* only reported, depending on the runtime
PoolEndRejects(i, fatal) ==
    /\ spc # "exited"
    /\ i \in 2..Len(ending)
    /\ ending' = Without(ending, i)
    /\ IF fatal THEN ProcessExit(1, "unhandledRejection") ELSE UNCHANGED << spc, exit >>
    /\ UNCHANGED << env, demoMode, check, releases, connects, queries, endCalls, signals, calls,
                    inflight, response >>
    /\ UNCHANGED stdout
    /\ UNCHANGED exceptPg

NextPg ==
    \/ StartServer
    \/ PoolConnectResolves
    \/ PoolConnectRejects
    \/ ServerConnectResolves
    \/ ServerConnectRejects
    \/ \E req \in Requests : ToolCall(req)
    \/ \E i \in 1..MaxInflight : QueryResolves(i)
    \/ \E i \in 1..MaxInflight : QueryRejects(i)
    \/ \E sig \in {"SIGINT", "SIGTERM"} : Signal(sig)
    \/ \E i \in 1..MaxSignals : PoolEndResolves(i)
    \/ \E i \in 1..MaxSignals, fatal \in BOOLEAN : PoolEndRejects(i, fatal)

(* ---------------------------------------------------------------------- *)
(* Redash server: add_widget_to_dashboard                                  *)
(* ---------------------------------------------------------------------- *)
\* an optional number that was not passed (undefined)
Undefined == -1
DashboardIds == {7, 42}
\* visualization_id: absent, zero, or the id of a visualization
VisualizationIds == {Undefined, 0, 456}
\* text: absent, empty, or some text
Texts == {None, "", "hello"}
Widths == {Undefined, 2}
\* the ids the remote gives the widgets it creates
WidgetIds == {1, 2}

\* !visualization_id : undefined and 0 are falsy
NoVisualization(visualization_id) == visualization_id \in {Undefined, 0}
\* !text : undefined and "" are falsy
NoText(text) == text \in {None, ""}

NoWidgetRequest == [dashboard_id |-> Undefined, visualization_id |-> Undefined,
                    text |-> None, width |-> Undefined, options |-> ""]
NoWidgetArgs == [dashboard_id |-> Undefined, visualization_id |-> Undefined,
                 text |-> None, width |-> Undefined]

\* variant: only a visualization counts, a text widget is refused
WidgetRefusedNoVisualization(a) == NoVisualization(a.visualization_id)

\* if (!visualization_id && !text)
WidgetRefused(a) == NoVisualization(a.visualization_id) /\ NoText(a.text)

\* the CreateWidgetRequest the handler builds: width ?? 1, options ?? safe default
WidgetRequest(a) ==
    [dashboard_id |-> a.dashboard_id, visualization_id |-> a.visualization_id,
     text |-> a.text, width |-> IF a.width = Undefined THEN 1 ELSE a.width,
     options |-> "parameterMappings: {}, position: {autoHeight: true}"]

WidgetType(a) == IF NoVisualization(a.visualization_id) THEN "text" ELSE "visualization"

WidgetAdded(a, id) ==
    [content |-> << "Successfully added " \o WidgetType(a)
                       \o " widget to dashboard (Widget ID: " \o ToString(id) \o ")",
                    JSONstringify("widget " \o ToString(id)) >>,
     isError |-> FALSE]

WidgetError(message) ==
    [content |-> << "Error adding widget: " \o message >>, isError |-> TRUE]

InitWidget ==
    /\ wpc = "idle"
    /\ wargs = NoWidgetArgs
    /\ wbody = NoWidgetRequest
    /\ wenvelope = NoEnvelope

\* the tool is called: validation, then createWidget's redashFetch (getConfig first)
CallAddWidget(dashboard_id, visualization_id, text, width) ==
    /\ wpc = "idle"
    /\ wargs' = [dashboard_id |-> dashboard_id, visualization_id |-> visualization_id,
                 text |-> text, width |-> width]
    /\ IF WidgetRefused(wargs')
       THEN /\ wenvelope' = [content |-> << "Error: Either visualization_id or text must be provided" >>,
                             isError |-> TRUE]
            /\ wpc' = "done"
            /\ UNCHANGED wbody
       ELSE IF ConfigMissing(renv)
            THEN /\ wenvelope' = WidgetError(ConfigError)
                 /\ wpc' = "done"
                 /\ UNCHANGED wbody
            ELSE /\ wbody' = WidgetRequest(wargs')
                 /\ wpc' = "createWidget"
                 /\ UNCHANGED wenvelope
    /\ UNCHANGED exceptWidget

\* POST /api/widgets answers with the created widget
CreateWidgetResolves(id) ==
    /\ wpc = "createWidget"
    /\ wenvelope' = WidgetAdded(wargs, id)
    /\ wpc' = "done"
    /\ UNCHANGED << wargs, wbody >>
    /\ UNCHANGED exceptWidget

\* POST /api/widgets answers with a non-2xx status: redashFetch throws
CreateWidgetRejects ==
    /\ wpc = "createWidget"
    /\ wenvelope' = WidgetError(ApiError)
    /\ wpc' = "done"
    /\ UNCHANGED << wargs, wbody >>
    /\ UNCHANGED exceptWidget

NextWidget ==
    \/ \E d \in DashboardIds, v \in VisualizationIds, t \in Texts, w \in Widths :
          CallAddWidget(d, v, t, w)
    \/ \E id \in WidgetIds : CreateWidgetResolves(id)
    \/ CreateWidgetRejects

(* ---------------------------------------------------------------------- *)
(* Kubernetes server: exec_in_pod                                          *)
(* ---------------------------------------------------------------------- *)
Pods == {"web", "db"}
Commands == {"ls -la", "false"}
\* command.split(/\s+/)
Split(command) == IF command = "ls -la" THEN << "ls", "-la" >> ELSE << command >>
\* pod.body.spec.containers, by name, as readNamespacedPod returns them
ContainerLists == {<< >>, << "app" >>, << "sidecar", "app" >>}
\* the exit codes kubectl exec ends with: that of the command, or its own
ExitCodes == {0, 1, 127}
StdoutTexts == {"", "total 0"}
StderrTexts == {"", "command terminated with exit code 1"}

NoExecArgs == [pod_name |-> None, command |-> None, container_name |-> None]
NoExecResult == [stdout |-> "", stderr |-> "", exitCode |-> -1]

\* variant: the command's output comes first, without the summary line
ExecEnvelopeOutputFirst(a, r) ==
    [content |-> << r.stdout,
                    IF r.stderr # "" THEN "Error output: " \o r.stderr ELSE "" >>,
     isError |-> FALSE]

\* exec_in_pod's three-part reply built from the ExecResult
ExecEnvelope(a, r) ==
    [content |-> << "Command execution results from pod '" \o a.pod_name
                       \o "' in namespace 'local':",
                    r.stdout,
                    IF r.stderr # "" THEN "Error output: " \o r.stderr ELSE "" >>,
     isError |-> FALSE]

\* exec_in_pod's catch block
ExecErrorEnvelope(message) ==
    [content |-> << "Error executing command in pod: " \o message >>, isError |-> TRUE]

InitK8s ==
    /\ kpc = "idle"
    /\ kargs = NoExecArgs
    /\ containerName = None
    /\ argv = << >>
    /\ execResult = NoExecResult
    /\ kenvelope = NoEnvelope

\* spawn("kubectl", ["exec", "-n", namespace, podName, "-c", containerName, "--", ...cmd])
Spawn(a, c) ==
    /\ containerName' = c
    /\ argv' = << "exec", "-n", "local", a.pod_name, "-c", c, "--" >> \o Split(a.command)
    /\ kpc' = "kubectl"

\* the tool is called: execCommandInPod looks the pod up when no container is named
CallExecInPod(pod_name, command, container_name) ==
    /\ kpc = "idle"
    /\ kargs' = [pod_name |-> pod_name, command |-> command, container_name |-> container_name]
    /\ IF container_name = None
       THEN /\ kpc' = "readNamespacedPod"
            /\ UNCHANGED << containerName, argv >>
       ELSE Spawn(kargs', container_name)
    /\ UNCHANGED << execResult, kenvelope >>
    /\ UNCHANGED exceptK8s

\* readNamespacedPod resolves: the first container is taken, or the call throws
ReadPodResolves(containers) ==
    /\ kpc = "readNamespacedPod"
    /\ IF Len(containers) > 0
       THEN /\ Spawn(kargs, containers[1])
            /\ UNCHANGED kenvelope
       ELSE /\ kenvelope' = ExecErrorEnvelope("No containers found in pod " \o kargs.pod_name)
            /\ kpc' = "done"
            /\ UNCHANGED << containerName, argv >>
    /\ UNCHANGED << kargs, execResult >>
    /\ UNCHANGED exceptK8s

\* readNamespacedPod rejects: the error is logged, rethrown and caught by the handler
ReadPodRejects ==
    /\ kpc = "readNamespacedPod"
    /\ kenvelope' = ExecErrorEnvelope("HTTP request failed")
    /\ kpc' = "done"
    /\ UNCHANGED << kargs, containerName, argv, execResult >>
    /\ UNCHANGED exceptK8s

\* kubectl.on("close", code): the promise resolves with what was collected,
\* whatever the exit code, and the handler builds its reply from it
KubectlCloses(code, out, err) ==
    /\ kpc = "kubectl"
    /\ execResult' = [stdout |-> out, stderr |-> err, exitCode |-> code]
    /\ kenvelope' = ExecEnvelope(kargs, execResult')
    /\ kpc' = "done"
    /\ UNCHANGED << kargs, containerName, argv >>
    /\ UNCHANGED exceptK8s

\* kubectl.on("error", err): the process could not be spawned, the promise rejects
KubectlError ==
    /\ kpc = "kubectl"
    /\ kenvelope' = ExecErrorEnvelope("spawn kubectl ENOENT")
    /\ kpc' = "done"
    /\ UNCHANGED << kargs, containerName, argv, execResult >>
    /\ UNCHANGED exceptK8s

NextK8s ==
    \/ \E p \in Pods, c \in Commands, n \in {None, "app"} : CallExecInPod(p, c, n)
    \/ \E cs \in ContainerLists : ReadPodResolves(cs)
    \/ ReadPodRejects
    \/ \E code \in ExitCodes, out \in StdoutTexts, err \in StderrTexts :
          KubectlCloses(code, out, err)
    \/ KubectlError

(* ---------------------------------------------------------------------- *)
(* Kubernetes server: find_pods                                            *)
(* ---------------------------------------------------------------------- *)
\* the characters a pod name is written with here: a letter, the hyphen, the dot
NameChars == {"a", "-", "."}
PatternChars == NameChars \cup {"*"}

\* the strings of at most n characters over an alphabet, as character sequences
StringsUpTo(alphabet, n) == UNION {[1..k -> alphabet] : k \in 0..n}

nginx == << "n", "g", "i", "n", "x" >>
nginxStar == nginx \o << "*" >>
nginxPods == << nginx \o << "-", "a", "b", "c" >>, nginx, << "m", "y", "-" >> \o nginx >>

PodNames == StringsUpTo(NameChars, MaxNameLen) \ {<< >>}
NamePatterns == StringsUpTo(PatternChars, MaxPatternLen) \cup {nginxStar}
\* the item lists the cluster answers with: one pod of any name, none, or the three nginx pods
PodLists == {<< n >> : n \in PodNames} \cup {<< >>, nginxPods}

\* the text of a character sequence
RECURSIVE Text(_)
Text(chars) == IF chars = << >> THEN "" ELSE chars[1] \o Text(Tail(chars))

\* the names of a pod list, as they appear in the JSON text
RECURSIVE NamesText(_)
NamesText(list) ==
    IF list = << >> THEN "" ELSE " " \o Text(list[1]) \o NamesText(Tail(list))

\* namePattern.replace(/\*/g, ".*")
RECURSIVE ReplaceStars(_)
ReplaceStars(pattern) ==
    IF pattern = << >> THEN << >>
    ELSE (IF pattern[1] = "*" THEN << ".", "*" >> ELSE << pattern[1] >>)
            \o ReplaceStars(Tail(pattern))

\* variant: the pattern is not anchored
regexPatternUnanchored(pattern) == ReplaceStars(pattern)

\* new RegExp("^" + namePattern.replace(/\*/g, ".*") + "$"), as its source
regexPattern(pattern) == << "^" >> \o ReplaceStars(pattern) \o << "$" >>

\* a regular expression atom against one character: "." is any character
AtomMatches(atom, char) == atom = "." \/ atom = char

\* the whole of `chars` is matched by the expression `re` (atoms, and atoms under *)
RECURSIVE Matches(_, _)
Matches(re, chars) ==
    IF re = << >> THEN chars = << >>
    ELSE IF Len(re) >= 2 /\ re[2] = "*"
         THEN \/ Matches(Tail(Tail(re)), chars)
              \/ chars # << >> /\ AtomMatches(re[1], chars[1]) /\ Matches(re, Tail(chars))
    ELSE chars # << >> /\ AtomMatches(re[1], chars[1]) /\ Matches(Tail(re), Tail(chars))

\* RegExp.prototype.test: some stretch of `chars` is matched, starting at the
\* first character under "^" and ending at the last under "$"
RegExpTest(re, chars) ==
    LET atStart == re # << >> /\ re[1] = "^"
        atEnd == re # << >> /\ re[Len(re)] = "$"
        body == SubSeq(re, IF atStart THEN 2 ELSE 1, IF atEnd THEN Len(re) - 1 ELSE Len(re))
    IN \E i \in 1..(Len(chars) + 1) : \E j \in (i - 1)..Len(chars) :
          /\ atStart => i = 1
          /\ atEnd => j = Len(chars)
          /\ Matches(body, SubSeq(chars, i, j))

\* allPods.items.filter((pod) => regexPattern.test(pod.metadata?.name || ""))
Filter(list, pattern) ==
    SelectSeq(list, LAMBDA name : RegExpTest(regexPattern(pattern), name))

FoundEnvelope(pattern, list) ==
    [content |-> << "Found " \o ToString(Len(list)) \o " pods matching '" \o Text(pattern)
                       \o "' in namespace 'local'.",
                    JSONstringify("pods" \o NamesText(list)) >>,
     isError |-> FALSE]

FindErrorEnvelope(message) ==
    [content |-> << "Error finding pods: " \o message >>, isError |-> TRUE]

InitFind ==
    /\ fpc = "idle"
    /\ namePattern = << >>
    /\ items = << >>
    /\ filteredItems = << >>
    /\ fenvelope = NoEnvelope

\* the tool is called: findPodsByName awaits getPods(namespace)
CallFindPods(name_pattern) ==
    /\ fpc = "idle"
    /\ namePattern' = name_pattern
    /\ fpc' = "getPods"
    /\ UNCHANGED << items, filteredItems, fenvelope >>
    /\ UNCHANGED exceptFind

\* listNamespacedPod resolves: the items are filtered and the handler replies
GetPodsResolves(list) ==
    /\ fpc = "getPods"
    /\ items' = list
    /\ filteredItems' = Filter(list, namePattern)
    /\ fenvelope' = FoundEnvelope(namePattern, filteredItems')
    /\ fpc' = "done"
    /\ UNCHANGED namePattern
    /\ UNCHANGED exceptFind

\* listNamespacedPod rejects: logged and rethrown twice, caught by the handler
GetPodsRejects ==
    /\ fpc = "getPods"
    /\ fenvelope' = FindErrorEnvelope("HTTP request failed")
    /\ fpc' = "done"
    /\ UNCHANGED << namePattern, items, filteredItems >>
    /\ UNCHANGED exceptFind

NextFind ==
    \/ \E pattern \in NamePatterns : CallFindPods(pattern)
    \/ \E list \in PodLists : GetPodsResolves(list)
    \/ GetPodsRejects

(* ---------------------------------------------------------------------- *)
(* lease-pdf server: write_pdf of a text without template, and read_pdf    *)
(* ---------------------------------------------------------------------- *)
fontSize == 12
\* fontSize * 1.5
lineHeight == (fontSize * 3) \div 2
pageMargin == 50
pageHeight == 792
textHeight == pageHeight - pageMargin * 2
\* Math.floor(textHeight / lineHeight)
linesPerPage == textHeight \div lineHeight

\* the text has n lines, all different, the one at `blank` (if any) empty
TextLines(n, blank) ==
    [k \in 1..n |-> IF k = blank THEN "" ELSE "line " \o ToString(k)]

\* request.content.text is falsy: absent or the empty string
NoLines(list) == list = << "" >>

\* line || " "
textToDraw(line) == IF line = "" THEN " " ELSE line

\* variant: a page is closed one line late
NeedsNewPageLate(onPage) == onPage > linesPerPage

\* if (currentLineOnPage >= linesPerPage)
NeedsNewPage(onPage) == onPage >= linesPerPage

\* Math.abs(lastY - item.transform[5]) > 1
YChanged(lastY, y) == (IF lastY > y THEN lastY - y ELSE y - lastY) > 1

\* the strings of consecutive items, appended one after the other
RECURSIVE JoinStr(_)
JoinStr(pageItems) ==
    IF pageItems = << >> THEN "" ELSE Head(pageItems).str \o JoinStr(Tail(pageItems))

\* renderPage: the text of one page as the lines "\n" separates: a line starts
\* at the first item and wherever y changed. The items are the strings drawn on
\* the page, in drawing order, with the y they were drawn at
renderPage(pageItems) ==
    LET starts == {k \in 1..Len(pageItems) :
                      k = 1 \/ YChanged(pageItems[k - 1].y, pageItems[k].y)}
        StartOf(n) == CHOOSE k \in starts : Cardinality({j \in starts : j < k}) = n - 1
        EndOf(n) == IF n = Cardinality(starts) THEN Len(pageItems) ELSE StartOf(n + 1) - 1
    IN [n \in 1..Cardinality(starts) |-> JoinStr(SubSeq(pageItems, StartOf(n), EndOf(n)))]

NoPdfData == [text |-> << >>, pageCount |-> 0]

\* pdfParse(dataBuffer, { pagerender }): every page is rendered, numpages counted
pdfParse(doc) ==
    [text |-> [p \in 1..Len(doc) |-> renderPage(doc[p])],
     pageCount |-> Len(doc)]

PdfWritten ==
    [content |-> << "PDF written successfully", JSONstringify("response"),
                    "Base64 PDF Data:" >>,
     isError |-> FALSE]
PdfRead(data) ==
    [content |-> << "PDF read successfully",
                    JSONstringify("pageCount " \o ToString(data.pageCount)) >>,
     isError |-> FALSE]
PdfWriteError(message) ==
    [content |-> << "Error writing PDF: Error writing PDF: " \o message >>, isError |-> TRUE]
PdfReadError(message) ==
    [content |-> << "Error reading PDF: Error reading PDF: " \o message >>, isError |-> TRUE]

InitPdf ==
    /\ dpc = "idle"
    /\ lines = << >>
    /\ lineIndex = 0
    /\ currentLineOnPage = 0
    /\ pdfDoc = << >>
    /\ pdfData = NoPdfData
    /\ penvelope = NoEnvelope

\* write_pdf is called with a text, no template, no form fields, no output
\* path: writePdf awaits PDFDocument.create() and then, when there is a text,
\* embedFont inside addMultiPageText
CallWritePdf(list) ==
    /\ dpc = "idle"
    /\ lines' = list
    /\ dpc' = "embedFont"
    /\ UNCHANGED << lineIndex, currentLineOnPage, pdfDoc, pdfData, penvelope >>
    /\ UNCHANGED exceptPdf

\* the font is embedded: addMultiPageText adds the first page and enters its
\* loop; when there was no text writePdf goes on to pdfDoc.save()
EmbedFontResolves ==
    /\ dpc = "embedFont"
    /\ IF NoLines(lines)
       THEN /\ dpc' = "save"
            /\ UNCHANGED << lineIndex, currentLineOnPage, pdfDoc >>
       ELSE /\ pdfDoc' = << << >> >>
            /\ currentLineOnPage' = 0
            /\ lineIndex' = 1
            /\ dpc' = "drawText"
    /\ UNCHANGED << lines, pdfData, penvelope >>
    /\ UNCHANGED exceptPdf

\* one pass of the loop of addMultiPageText: a new page when the current one is
\* full, then the line is drawn at its y; after the last line writePdf awaits
\* pdfDoc.save()
DrawLine ==
    /\ dpc = "drawText"
    /\ LET fresh == NeedsNewPage(currentLineOnPage)
           onPage == IF fresh THEN 0 ELSE currentLineOnPage
           pages == IF fresh THEN Append(pdfDoc, << >>) ELSE pdfDoc
           yPosition == pageHeight - pageMargin - onPage * lineHeight
           drawn == [str |-> textToDraw(lines[lineIndex]), y |-> yPosition]
       IN /\ pdfDoc' = [pages EXCEPT ![Len(pages)] = Append(@, drawn)]
          /\ currentLineOnPage' = onPage + 1
    /\ lineIndex' = lineIndex + 1
    /\ dpc' = IF lineIndex' > Len(lines) THEN "save" ELSE "drawText"
    /\ UNCHANGED << lines, pdfData, penvelope >>
    /\ UNCHANGED exceptPdf

\* pdfDoc.save() resolves: the bytes are returned as base64
SaveResolves ==
    /\ dpc = "save"
    /\ penvelope' = PdfWritten
    /\ dpc' = "written"
    /\ UNCHANGED << lines, lineIndex, currentLineOnPage, pdfDoc, pdfData >>
    /\ UNCHANGED exceptPdf

\* creating, embedding or saving rejects: caught inside writePdf
WriteRejects ==
    /\ dpc \in {"embedFont", "save"}
    /\ penvelope' = PdfWriteError("save failed")
    /\ dpc' = "failed"
    /\ UNCHANGED << lines, lineIndex, currentLineOnPage, pdfDoc, pdfData >>
    /\ UNCHANGED exceptPdf

\* read_pdf is called with the base64 just returned: readPdf awaits pdfParse
CallReadPdf ==
    /\ dpc = "written"
    /\ dpc' = "pdfParse"
    /\ UNCHANGED << lines, lineIndex, currentLineOnPage, pdfDoc, pdfData, penvelope >>
    /\ UNCHANGED exceptPdf

\* pdfParse resolves (the form fields are read synchronously after it)
PdfParseResolves ==
    /\ dpc = "pdfParse"
    /\ pdfData' = pdfParse(pdfDoc)
    /\ penvelope' = PdfRead(pdfData')
    /\ dpc' = "read"
    /\ UNCHANGED << lines, lineIndex, currentLineOnPage, pdfDoc >>
    /\ UNCHANGED exceptPdf

\* pdfParse rejects: caught inside readPdf
PdfParseRejects ==
    /\ dpc = "pdfParse"
    /\ penvelope' = PdfReadError("Invalid PDF structure")
    /\ dpc' = "failed"
    /\ UNCHANGED << lines, lineIndex, currentLineOnPage, pdfDoc, pdfData >>
    /\ UNCHANGED exceptPdf

\* the texts written: up to MaxLines lines, at most one of them empty
PdfTexts == { TextLines(n, blank) : n \in 1..MaxLines, blank \in 0..MaxBlank }

NextPdf ==
    \/ \E list \in PdfTexts : CallWritePdf(list)
    \/ EmbedFontResolves
    \/ DrawLine
    \/ SaveResolves
    \/ WriteRejects
    \/ CallReadPdf
    \/ PdfParseResolves
    \/ PdfParseRejects

(* ---------------------------------------------------------------------- *)
(* GitHub server: summarize_pr_diff                                         *)
(* ---------------------------------------------------------------------- *)
PrNumbers == {7, 12}
\* post_comment as the caller gives it: absent, true or false
PostCommentArgs == {None, "true", "false"}

\* variant: the summary is posted only when asked for
PostCommentDefaultFalse(given) == given = "true"

\* post_comment = true : the parameter's default
PostComment(given) == given # "false"

PullRequest(title, text) == [title |-> title, body |-> text]
NoPullRequest == PullRequest(None, None)
\* pr.body may be null
PullRequests == {PullRequest(t, b) : t \in {"Fix login", "Add cache"}, b \in {None, "Closes #3"}}

File(filename, additions, deletions) ==
    [filename |-> filename, additions |-> additions, deletions |-> deletions,
     changes |-> additions + deletions]
ChangedFiles == {File("a.ts", 1, 0), File("b.ts", 5, 2)}
RECURSIVE ListsUpTo(_, _)
ListsUpTo(S, n) ==
    IF n = 0 THEN {<< >>}
    ELSE LET shorter == ListsUpTo(S, n - 1)
         IN shorter \cup {Append(l, x) : l \in shorter, x \in S}
FileLists == ListsUpTo(ChangedFiles, MaxFiles)
NoFiles == [ok |-> FALSE, items |-> << >>]

\* files.reduce((sum, file) => sum + file.additions, 0), and the like
RECURSIVE Total(_, _)
Total(list, field) ==
    IF list = << >> THEN 0 ELSE Head(list)[field] + Total(Tail(list), field)

\* [...files].sort((a, b) => b.changes - a.changes): most changes first, stable
RECURSIVE sortedFiles(_)
sortedFiles(list) ==
    IF list = << >> THEN << >>
    ELSE LET rest == sortedFiles(Tail(list))
             before == SelectSeq(rest, LAMBDA f : f.changes > Head(list).changes)
             after == SelectSeq(rest, LAMBDA f : f.changes <= Head(list).changes)
         IN before \o << Head(list) >> \o after

RECURSIVE FileLines(_)
FileLines(list) ==
    IF list = << >> THEN ""
    ELSE "- " \o Head(list).filename \o ": " \o ToString(Head(list).additions)
            \o " addition(s), " \o ToString(Head(list).deletions) \o " deletion(s); "
            \o FileLines(Tail(list))

\* the markdown summary of the pull request p and its files
Summary(p, list) ==
    "# PR Summary: " \o p.title \o "; "
      \o (IF p.body # None THEN p.body \o "; " ELSE "")
      \o "This PR contains " \o ToString(Len(list)) \o " file(s) with: "
      \o ToString(Total(list, "additions")) \o " additions(+), "
      \o ToString(Total(list, "deletions")) \o " deletions(-); "
      \o FileLines(SubSeq(sortedFiles(list), 1, IF Len(list) > 10 THEN 10 ELSE Len(list)))
      \o (IF Len(list) > 10
          THEN "- ... and " \o ToString(Len(list) - 10) \o " more files" ELSE "")

\* createPullRequestComment's finalComment (addSignature defaults to true)
finalComment(comment) == comment \o " _This comment was created by Cursor_"

SummaryEnvelope(a, p, list) ==
    [content |-> << "PR #" \o ToString(a.pr_number) \o " summary "
                       \o (IF PostComment(a.post_comment)
                           THEN "created and posted as a comment" ELSE "generated") \o ":",
                    Summary(p, list),
                    JSONstringify("files_changed " \o ToString(Len(list))) >>,
     isError |-> FALSE]

SummaryErrorEnvelope(a, message) ==
    [content |-> << "Error summarizing PR #" \o ToString(a.pr_number)
                       \o " for octo/repo: " \o message >>,
     isError |-> TRUE]

HttpError == "HTTP error: 404 - Not Found"

InitGh ==
    /\ gpc = "idle"
    /\ gargs = [pr_number |-> 0, post_comment |-> None]
    /\ pr = NoPullRequest
    /\ files = NoFiles
    /\ posts = 0
    /\ posted = None
    /\ genvelope = NoEnvelope

\* the tool is called: the handler awaits getPullRequest
CallSummarizePrDiff(pr_number, post_comment) ==
    /\ gpc = "idle"
    /\ gargs' = [pr_number |-> pr_number, post_comment |-> post_comment]
    /\ gpc' = "getPullRequest"
    /\ UNCHANGED << pr, files, posts, posted, genvelope >>
    /\ UNCHANGED exceptGh

\* getPullRequest resolves: the handler awaits getPullRequestFiles
GetPullRequestResolves(p) ==
    /\ gpc = "getPullRequest"
    /\ pr' = p
    /\ gpc' = "getPullRequestFiles"
    /\ UNCHANGED << gargs, files, posts, posted, genvelope >>
    /\ UNCHANGED exceptGh

\* getPullRequest throws (fetch rejects or the reply is not ok): the handler's catch
GetPullRequestRejects ==
    /\ gpc = "getPullRequest"
    /\ genvelope' = SummaryErrorEnvelope(gargs, HttpError)
    /\ gpc' = "done"
    /\ UNCHANGED << gargs, pr, files, posts, posted >>
    /\ UNCHANGED exceptGh

\* getPullRequestFiles resolves: the summary is built and, if (post_comment),
\* createPullRequestComment sends it; otherwise the handler replies
GetPullRequestFilesResolves(list) ==
    /\ gpc = "getPullRequestFiles"
    /\ files' = [ok |-> TRUE, items |-> list]
    /\ IF PostComment(gargs.post_comment)
       THEN /\ posts' = posts + 1
            /\ posted' = finalComment(Summary(pr, list))
            /\ gpc' = "createPullRequestComment"
            /\ UNCHANGED genvelope
       ELSE /\ genvelope' = SummaryEnvelope(gargs, pr, list)
            /\ gpc' = "done"
            /\ UNCHANGED << posts, posted >>
    /\ UNCHANGED << gargs, pr >>
    /\ UNCHANGED exceptGh

\* getPullRequestFiles throws: the handler's catch
GetPullRequestFilesRejects ==
    /\ gpc = "getPullRequestFiles"
    /\ genvelope' = SummaryErrorEnvelope(gargs, HttpError)
    /\ gpc' = "done"
    /\ UNCHANGED << gargs, pr, files, posts, posted >>
    /\ UNCHANGED exceptGh

\* the comment was created: the handler replies with the summary
CreatePullRequestCommentResolves ==
    /\ gpc = "createPullRequestComment"
    /\ genvelope' = SummaryEnvelope(gargs, pr, files.items)
    /\ gpc' = "done"
    /\ UNCHANGED << gargs, pr, files, posts, posted >>
    /\ UNCHANGED exceptGh

\* createPullRequestComment throws: the handler's catch, nothing is retried
CreatePullRequestCommentRejects ==
    /\ gpc = "createPullRequestComment"
    /\ genvelope' = SummaryErrorEnvelope(gargs, "HTTP error: 403 - Forbidden")
    /\ gpc' = "done"
    /\ UNCHANGED << gargs, pr, files, posts, posted >>
    /\ UNCHANGED exceptGh

NextGh ==
    \/ \E n \in PrNumbers, c \in PostCommentArgs : CallSummarizePrDiff(n, c)
    \/ \E p \in PullRequests : GetPullRequestResolves(p)
    \/ GetPullRequestRejects
    \/ \E list \in FileLists : GetPullRequestFilesResolves(list)
    \/ GetPullRequestFilesRejects
    \/ CreatePullRequestCommentResolves
    \/ CreatePullRequestCommentRejects

(* ---------------------------------------------------------------------- *)
(* The PostgreSQL server's client: it reads replies off the transport       *)
(* ---------------------------------------------------------------------- *)
InitClient == received = { }

\* the client of a server in demo mode keeps the reply the server wrote last
ClientReceives ==
    /\ demoMode
    /\ response # NoReply
    /\ response \notin received
    /\ received' = received \cup {response}
    /\ UNCHANGED exceptClient

NextPgClient == NextPg \/ ClientReceives

(* ---------------------------------------------------------------------- *)
(* Specifications                                                          *)
(* ---------------------------------------------------------------------- *)
Init == InitRedash /\ InitWidget /\ InitPg /\ InitK8s /\ InitFind /\ InitPdf /\ InitClient /\ InitGh

\* the Redash server's execute_query alone (the other servers are other
\* processes, held in their initial state with their environment complete)
InitRedashServer == Init /\ env = requiredEnvVars
SpecRedash == InitRedashServer /\ [][NextRedash]_vars

\* the Redash server's add_widget_to_dashboard alone
SpecWidget == InitRedashServer /\ [][NextWidget]_vars

\* the PostgreSQL server alone
InitPgServer == Init /\ renv = redashEnvVars
SpecPg == InitPgServer /\ [][NextPg]_vars

\* the Kubernetes server alone
InitK8sServer == Init /\ env = requiredEnvVars /\ renv = redashEnvVars
SpecK8s == InitK8sServer /\ [][NextK8s]_vars

\* the Kubernetes server's find_pods alone
SpecFind == InitK8sServer /\ [][NextFind]_vars

\* the lease-pdf server's write_pdf and read_pdf alone
SpecPdf == InitK8sServer /\ [][NextPdf]_vars

\* the GitHub server's summarize_pr_diff alone
SpecGh == InitK8sServer /\ [][NextGh]_vars

\* the PostgreSQL server and the client that reads its replies
SpecPgClient == InitPgServer /\ [][NextPgClient]_vars

\* the Kubernetes, lease-pdf and PostgreSQL servers, one of them run at a time
\* (they are separate processes and share no state)
K8sAlone == InitPdf /\ InitPg /\ NextK8s
PdfAlone == InitK8s /\ InitPg /\ NextPdf
PgAlone == InitK8s /\ InitPdf /\ NextPg
NextHandlers == K8sAlone \/ PdfAlone \/ PgAlone
SpecHandlers == InitK8sServer /\ [][NextHandlers]_vars

\* the event loop runs every continuation whose promise has settled, and every
\* request and timer settles; the remote is not obliged to move the job on
ClientStep ==
    \/ ExecuteQueryFails
    \/ \E r \in ResultIds : ExecuteQueryCached(r)
    \/ \E j \in RemoteJobs : ExecuteQueryJob(j)
    \/ ExecuteQueryEmpty
    \/ WaitForJobLoop
    \/ GetJobStatusReply
    \/ GetJobStatusFails
    \/ TimeoutFires
    \/ GetQueryResultReply
    \/ GetQueryResultFails

FairSpecRedash == SpecRedash /\ WF_vars(ClientStep)

(* ---------------------------------------------------------------------- *)
(* Redash: properties                                                      *)
(* ---------------------------------------------------------------------- *)
\* executeQueryAndWait has ended (it returned or threw)
Ended == rpc = "done" /\ outcome.kind \in {"returned", "thrown"}

\* C1: when the statuses the remote reports for the job are 1, 1, 2, 3 in that
\* order (the descriptor of the submission reply first, then one per poll reply),
\* exactly 3 getJobStatus polls are made, none after the 3, and what is returned
\* is the result fetched under the polled job's query_result_id; it is returned
\* whenever that id is present and the fetch does not fail upstream.
C1_ThreePollsThenResult ==
    reported = << PENDING, PENDING, STARTED, SUCCESS >> =>
        /\ polls = 3
        /\ outcome.kind = "returned" =>
              /\ outcome.result = job.query_result_id
              /\ fetched = << job.query_result_id >>
              /\ ~outcome.fromCache
        /\ (rpc = "done" /\ job.query_result_id # NoResultId /\ outcome.message # ApiError)
              => outcome.kind = "returned"

C1_Witness ==
    /\ reported = << PENDING, PENDING, STARTED, SUCCESS >>
    /\ rpc = "done"
    /\ outcome.kind = "returned"
    /\ outcome.result = MaxResultId

\* C2: when all maxAttempts polls came back with status 1 or 2, executeQueryAndWait
\* throws the timeout error, and the seconds it states are maxAttempts * pollInterval
\* milliseconds: 60 with the defaults, which is also the time spent in setTimeout.
C2_TimeoutStatesAttemptsTimesInterval ==
    (rpc = "done" /\ attempts = maxAttempts) =>
        /\ outcome.kind = "thrown"
        /\ outcome.message = "Job j1 did not complete within 60 seconds"
        /\ outcome.seconds * 1000 = maxAttempts * pollInterval
        /\ outcome.seconds * 1000 = waited
        /\ polls = maxAttempts
        /\ envelope.isError

C2_Witness ==
    /\ rpc = "done"
    /\ attempts = maxAttempts
    /\ job.status \in {PENDING, STARTED}
    /\ outcome.seconds = 60

\* C3: whatever the remote reports, at most maxAttempts polls are issued, never
\* two at once, every poll after the first follows exactly one pollInterval of
\* setTimeout after the previous one, and a started executeQueryAndWait ends by
\* returning or throwing.
C3_BoundedPolling ==
    /\ [](polls <= maxAttempts /\ polling <= 1)
    /\ [][(polls' = polls + 1 /\ polls > 0) => sincePoll = pollInterval]_vars
    /\ [][(polls' # polls) => (polls' = polls + 1 /\ polling = 0)]_vars
    /\ (rpc = "executeQuery" /\ args.wait_for_result) ~> Ended

C3_Witness ==
    /\ polls = maxAttempts
    /\ waited = (maxAttempts - 1) * pollInterval
    /\ Ended
    /\ outcome.kind = "returned"

\* C4: once a getJobStatus reply carried status 3, 4 or 5, no further poll is issued.
C4_NoPollAfterTerminal ==
    [][job.status >= 3 => (polls' = polls /\ job' = job)]_vars

C4_Witness ==
    /\ job.status >= 3
    /\ polls > 1
    /\ rpc = "getQueryResult"

\* C5: a polled FAILURE makes executeQueryAndWait throw an error carrying the job's
\* error message, a polled CANCELLED makes it throw a different, cancellation
\* error; in both cases nothing is fetched and nothing is returned.
C5_FailureAndCancelPropagate ==
    /\ job.status = FAILURE =>
          /\ Ended /\ outcome.kind = "thrown"
          /\ job.error # None => outcome.message = "Query execution failed: " \o job.error
          /\ outcome.message # "Query execution was cancelled"
          /\ fetched = << >>
          /\ envelope.isError
    /\ job.status = CANCELLED =>
          /\ Ended /\ outcome.kind = "thrown"
          /\ outcome.message = "Query execution was cancelled"
          /\ fetched = << >>
          /\ envelope.isError

C5_Witness ==
    /\ job.status = FAILURE
    /\ job.error # None
    /\ polls > 1
    /\ Ended

\* C6: a polled SUCCESS without query_result_id makes executeQueryAndWait throw
\* the no-result-id error without fetching anything, and the handler's catch
\* turns it into the same one-part isError envelope as an upstream (API) error.
C6_SuccessWithoutResultId ==
    /\ (job.status = SUCCESS /\ job.query_result_id = NoResultId) =>
          /\ Ended /\ outcome.kind = "thrown"
          /\ outcome.message = "Job completed but no query_result_id returned"
          /\ fetched = << >>
    /\ (Ended /\ outcome.kind = "thrown") =>
          /\ envelope.isError
          /\ envelope.content = << "Error executing query: " \o outcome.message >>

C6_Witness ==
    /\ job.status = SUCCESS
    /\ job.query_result_id = NoResultId
    /\ envelope = [content |-> << "Error executing query: Job completed but no query_result_id returned" >>,
                   isError |-> TRUE]

(* ---------------------------------------------------------------------- *)
(* PostgreSQL server: properties                                           *)
(* ---------------------------------------------------------------------- *)
\* the reply is the demo fixture of the request it answers
DemoReply ==
    /\ ~response.isError
    /\ response.content = DemoContent(Request(response.tool, response.arg))
    /\ response.tool = "mcp__list_tables" =>
          response.content = << "Running in demo mode - showing sample tables.",
                                "public.users, public.products, public.orders" >>
    /\ response.tool = "mcp__get_database_info" =>
          response.content[1] = "Running in demo mode - no actual PostgreSQL connection."

\* C7: when one of POSTGRES_DB, POSTGRES_USER, POSTGRES_PASSWORD is unset, then
\* from startServer on the server is in demo mode, every reply of the four tools
\* is the demo fixture of its request, and pool.connect() and pool.query() are
\* never called.
C7_MissingEnvMeansDemoOnly ==
    (missingEnvVars(env) # {} /\ spc # "load") =>
        /\ demoMode
        /\ connects = 0 /\ queries = 0 /\ inflight = << >>
        /\ response # NoReply => DemoReply

C7_Witness ==
    /\ env = {"POSTGRES_DB", "POSTGRES_USER"}
    /\ calls = MaxCalls
    /\ response.tool = "mcp__execute_query"
    /\ response.arg = "select name from products"
    /\ response.content[1] = "Demo query executed successfully. Rows affected: 3"

\* C8: once demoMode is true it stays true, and no step taken in demo mode (tool
\* call, query reply, signal) calls pool.connect() or pool.query().
C8_DemoModeIsOneWay ==
    [][demoMode => (demoMode' /\ connects' = connects /\ queries' = queries)]_vars

C8_Witness ==
    /\ demoMode
    /\ check = "failed"
    /\ calls = MaxCalls
    /\ spc = "exited"
    /\ exit.by = "SIGTERM"

\* C9: when all required variables are set and the startup pool.connect() fails,
\* that was the only connection attempt, the failure sets demoMode and startServer
\* goes on to connect the transport; the process then serves, and only a failing
\* transport or a signal ends it.
C9_FailedCheckFallsBackToDemo ==
    /\ [](check = "failed" =>
            /\ env = requiredEnvVars
            /\ demoMode
            /\ connects = 1 /\ releases = 0
            /\ spc \in {"server.connect", "serving", "exited"}
            /\ response # NoReply => DemoReply)
    /\ [][(check = "pending" /\ check' = "failed") => (demoMode' /\ spc' = "server.connect")]_vars
    /\ [](check = "ok" => connects = 1 /\ releases = 1 /\ ~demoMode)

C9_Witness ==
    /\ check = "failed"
    /\ spc = "serving"
    /\ response.tool = "mcp__get_database_info"
    /\ DemoReply

\* C10: over any sequence of SIGINT / SIGTERM deliveries pool.end() is called at
\* most once: a second signal does not close the pool again.
C10_PoolEndedAtMostOnce == endCalls <= 1

\* C11: once SIGINT or SIGTERM has been handled the process ends with exit code 0,
\* and a server holding a live pool has called pool.end() before it exits.
C11_SignalExitsWithZero ==
    (spc = "exited" /\ exit.by \in {"SIGINT", "SIGTERM", "unhandledRejection"}) =>
        /\ exit.code = 0
        /\ ~demoMode => endCalls >= 1

\* C12: from the first signal on no tool handler is started, also while
\* `await pool.end()` is still pending.
C12_NoCallAfterSignal == [][signals > 0 => calls' = calls]_vars

C15_NonZeroExitIsError ==
    (kpc = "done" /\ execResult.exitCode > 0) => kenvelope.isError

(* ---------------------------------------------------------------------- *)
(* Redash server: reply shapes and configuration                           *)
(* ---------------------------------------------------------------------- *)
\* the one-line summaries execute_query's success replies start with
Summaries ==
    {"Query 1 executed successfully. Results returned from cache.",
     "Query 1 executed successfully. Query executed fresh (job ID: j1).",
     "Query 1 returned cached results.",
     "Query 1 execution started. Job ID: j1. Use get_job_status to check progress."}

\* the indented JSON texts execute_query can send: a query result, or the job
JsonTexts ==
    {JSONstringify("query_result " \o ToString(r)) : r \in ResultIds}
      \cup {JSONstringify("job j1")}

\* the messages execute_query's error replies carry
ErrorMessages ==
    {ApiError, ConfigError, TimeoutError.message, CancelledError.message,
     NoResultIdError.message, UnexpectedError.message,
     "Unexpected response from Redash API"}
      \cup {FailedError(Job(FAILURE, NoResultId, e)).message : e \in JobErrors}

C17_ErrorIsErrorColonMessage ==
    envelope.isError =>
        /\ Len(envelope.content) = 1
        /\ \E m \in ErrorMessages : envelope.content[1] = "Error: " \o m

\* C18: with a required variable missing the server is in demo mode or has exited
\* at startup, so a tool call is either never taken or answered with demo data:
\* no call is taken and answered with an error.
C18_MissingEnvDemoOrExit ==
    (ConfigMissing(renv) /\ rpc = "done") => ~envelope.isError

\* C20: add_widget_to_dashboard with dashboard_id 42, text "hello" and no
\* visualization_id passes validation, posts a text widget with the default
\* width, and when the remote creates the widget the reply is a success naming
\* the widget id (the only errors are the remote's or the configuration's);
\* with neither visualization_id nor text it is answered at once, without any
\* request, by the error envelope stating that one of the two must be provided.
C20_TextWidgetAddedNeitherRefused ==
    /\ (wpc # "idle" /\ wargs.dashboard_id = 42 /\ wargs.text = "hello"
          /\ wargs.visualization_id = Undefined) =>
          /\ wenvelope.content # << "Error: Either visualization_id or text must be provided" >>
          /\ ~ConfigMissing(renv) =>
                /\ wbody.dashboard_id = 42 /\ wbody.text = "hello"
                /\ wbody.visualization_id = Undefined
                /\ wargs.width = Undefined => wbody.width = 1
                /\ (wpc = "done" /\ wenvelope.isError) => wenvelope = WidgetError(ApiError)
          /\ (wpc = "done" /\ ~wenvelope.isError) =>
                \E id \in WidgetIds :
                    wenvelope.content =
                        << "Successfully added text widget to dashboard (Widget ID: "
                              \o ToString(id) \o ")",
                           JSONstringify("widget " \o ToString(id)) >>
    /\ (wpc # "idle" /\ wargs.text = None /\ wargs.visualization_id = Undefined) =>
          /\ wpc = "done"
          /\ wbody = NoWidgetRequest
          /\ wenvelope = [content |-> << "Error: Either visualization_id or text must be provided" >>,
                          isError |-> TRUE]

C20_Witness ==
    /\ wpc = "done"
    /\ wargs = [dashboard_id |-> 42, visualization_id |-> Undefined, text |-> "hello",
                width |-> Undefined]
    /\ wenvelope.content[1] = "Successfully added text widget to dashboard (Widget ID: 1)"

(* ---------------------------------------------------------------------- *)
(* PostgreSQL server: standard output                                      *)
(* ---------------------------------------------------------------------- *)
\* C19: in every state of the process (startup, request handling, shutdown)
\* nothing but protocol response frames has been written to standard output.
C19_OnlyFramesOnStdout == stdout \subseteq {Frame}

(* ---------------------------------------------------------------------- *)
(* Kubernetes server: find_pods properties                                 *)
(* ---------------------------------------------------------------------- *)
\* the pattern read as a glob: "*" is any sequence, any other character is itself
RECURSIVE Glob(_, _)
Glob(pattern, chars) ==
    IF pattern = << >> THEN chars = << >>
    ELSE IF pattern[1] = "*"
         THEN Glob(Tail(pattern), chars) \/ (chars # << >> /\ Glob(pattern, Tail(chars)))
    ELSE chars # << >> /\ pattern[1] = chars[1] /\ Glob(Tail(pattern), Tail(chars))

HasStar(pattern) == \E k \in 1..Len(pattern) : pattern[k] = "*"
FirstStar(pattern) ==
    CHOOSE k \in 1..Len(pattern) : pattern[k] = "*" /\ \A m \in 1..(k - 1) : pattern[m] # "*"
\* findPodsByName keeps a pod of that name for the pattern alone
Keeps(pattern, name) == Filter(<< name >>, pattern) = << name >>
Found(name) == \E k \in 1..Len(filteredItems) : filteredItems[k] = name
FindDone == fpc = "done" /\ ~fenvelope.isError

\* C21: findPodsByName returns, in their order, exactly the pods whose whole
\* name matches the pattern: a pattern without "*" only keeps names of its own
\* length (anchored at both ends); a "*" stands for any, possibly empty, stretch
\* between what the part before it and the part after it match; for patterns
\* of letters, hyphens and "*" this is glob matching; and "nginx*" keeps
\* nginx-abc and nginx but not my-nginx.
C21_WholeNameStarMatch ==
    FindDone =>
        /\ \A k \in 1..Len(items) :
              LET name == items[k]
                  star == FirstStar(namePattern)
                  before == SubSeq(namePattern, 1, star - 1)
                  after == SubSeq(namePattern, star + 1, Len(namePattern))
              IN /\ ~HasStar(namePattern) => (Found(name) => Len(name) = Len(namePattern))
                 /\ HasStar(namePattern) =>
                       (Found(name) <=>
                           \E i \in 0..Len(name) : \E j \in i..Len(name) :
                               /\ Keeps(before, SubSeq(name, 1, i))
                               /\ Keeps(after, SubSeq(name, j + 1, Len(name))))
                 /\ (\A m \in 1..Len(namePattern) : namePattern[m] # ".") =>
                       (Found(name) <=> Glob(namePattern, name))
        /\ \A k \in 1..Len(filteredItems) : \E m \in 1..Len(items) : items[m] = filteredItems[k]
        /\ (namePattern = nginxStar /\ items = nginxPods) =>
              filteredItems = << nginxPods[1], nginxPods[2] >>
        /\ fenvelope.content[1] = "Found " \o ToString(Len(filteredItems)) \o " pods matching '"
                                     \o Text(namePattern) \o "' in namespace 'local'."

C21_Witness ==
    /\ FindDone
    /\ namePattern = nginxStar
    /\ items = nginxPods
    /\ fenvelope.content[1] = "Found 2 pods matching 'nginx*' in namespace 'local'."

\* C30: in a pattern only "*" is a wildcard, every other character matches only
\* itself: the pods kept are those the pattern matches as a glob, and a pattern
\* without "*" keeps exactly the pod whose name equals the pattern.
C30_OnlyStarIsWildcard ==
    FindDone =>
        \A k \in 1..Len(items) :
            /\ Found(items[k]) <=> Glob(namePattern, items[k])
            /\ ~HasStar(namePattern) => (Found(items[k]) <=> items[k] = namePattern)


(* ---------------------------------------------------------------------- *)
(* lease-pdf server: properties                                            *)
(* ---------------------------------------------------------------------- *)
\* an empty line is drawn as " " and read back as that blank line
SameLine(read, written) == read = written \/ (written = "" /\ read = " ")

\* Math.ceil(n / linesPerPage)
PagesFor(n) == (n + linesPerPage - 1) \div linesPerPage

Envelopes ==
    (IF kpc = "done" THEN {kenvelope} ELSE {})
      \cup (IF penvelope # NoEnvelope THEN {penvelope} ELSE {})
      \cup (IF response # NoReply
            THEN {[content |-> response.content, isError |-> response.isError]}
            ELSE {})

\* C24: every envelope a handler returned has at least one part and its first
\* part is a non-empty sentence, never the raw output or the JSON payload, also
\* when the command of exec_in_pod printed nothing.
C24_FirstPartIsNonEmptyText ==
    \A e \in Envelopes :
        /\ Len(e.content) >= 1
        /\ e.content[1] # ""
        /\ e.content[1] \notin StdoutTexts
        /\ \A k \in 2..Len(e.content) : e.content[1] # e.content[k]

C24_Witness ==
    /\ kpc = "done"
    /\ ~kenvelope.isError
    /\ kenvelope.content[2] = ""
    /\ kenvelope.content[3] = ""

(* ---------------------------------------------------------------------- *)
(* PostgreSQL server and client: properties                                *)
(* ---------------------------------------------------------------------- *)
GetListTools == {"mcp__get_database_info", "mcp__list_tables", "mcp__get_table_structure"}

TerminalDescriptor == args.wait_for_result /\ execResponse.job.status >= 3

\* C26 (as stated): a descriptor that is already terminal is acted on directly,
\* no getJobStatus poll is issued for the job.
C26_TerminalDescriptorNoPoll == TerminalDescriptor => polls = 0

\* C26 (amended): a descriptor that is already terminal is not acted on:
\* waitForJob issues one getJobStatus poll for the job, exactly one, and
\* executeQueryAndWait fetches or throws only after that poll, on its reply.
C26_TerminalDescriptorPolledOnce ==
    TerminalDescriptor =>
        /\ polls <= 1
        /\ rpc \in {"getJobStatus", "getQueryResult", "done"} => polls = 1
        /\ (fetched # << >> \/ Ended) => polls = 1
        /\ fetched # << >> => fetched = << job.query_result_id >>
        /\ (Ended /\ outcome.kind = "thrown" /\ outcome.message # ApiError) =>
              job.status = execResponse.job.status

C26_Witness ==
    /\ TerminalDescriptor
    /\ execResponse.job.status = FAILURE
    /\ job.status = FAILURE
    /\ Ended
    /\ outcome.kind = "thrown"
    /\ polls = 1

\* C27: executeQueryAndWait has returned only when the submission reply held a
\* ready result (a cache hit: no getJobStatus poll was made, the result is that
\* one), or when a poll came back with status 3 and a result id and the result
\* was fetched under exactly that id; when the reply held neither a result nor
\* a job, executeQueryAndWait has thrown.
C27_ReturnsOnlyFromCacheOrPolledSuccess ==
    Ended =>
        /\ outcome.kind = "returned" =>
              \/ /\ execResponse.query_result # NoResultId
                 /\ outcome.fromCache
                 /\ outcome.result = execResponse.query_result
                 /\ polls = 0
              \/ /\ execResponse.query_result = NoResultId
                 /\ execResponse.job # NoJob
                 /\ polls >= 1
                 /\ job.status = SUCCESS
                 /\ job.query_result_id # NoResultId
                 /\ fetched = << job.query_result_id >>
                 /\ outcome.result = job.query_result_id
                 /\ ~outcome.fromCache
        /\ (execResponse.query_result = NoResultId /\ execResponse.job = NoJob) =>
              /\ outcome.kind = "thrown"
              /\ polls = 0 /\ fetched = << >>

\* a job that was still running at the first poll, succeeded at the second
C27_Witness ==
    /\ Ended
    /\ outcome.kind = "returned"
    /\ ~outcome.fromCache
    /\ polls = 2
    /\ args.format = "csv"
    /\ fetched = << job.query_result_id >>

(* ---------------------------------------------------------------------- *)
(* PostgreSQL server: when demo mode is decided                            *)
(* ---------------------------------------------------------------------- *)
\* C28: demoMode changes only in startServer, in the step that goes on to
\* server.connect, before any tool call was handled or answered; while serving
\* it keeps its value, and in live mode every handler that ends replies with the
\* live result or with its error envelope, never with the demo fixture, and
\* leaves demoMode false.
C28_DemoModeDecidedAtStartup ==
    /\ [][demoMode' # demoMode =>
            /\ spc \in {"load", "pool.connect"}
            /\ spc' = "server.connect"
            /\ calls = 0
            /\ response = NoReply]_vars
    /\ [][(~demoMode /\ Len(inflight') < Len(inflight)) =>
            \E i \in 1..Len(inflight) :
                /\ ~demoMode'
                /\ response' \in {Reply(inflight[i], LiveContent(inflight[i]), FALSE),
                                  Reply(inflight[i], ErrorContent(inflight[i]), TRUE)}
                /\ response'.content # DemoContent(inflight[i])]_vars
    /\ [](~demoMode /\ response # NoReply =>
            response.content # DemoContent(Request(response.tool, response.arg)))

\* a live server answered a failing mcp__list_tables with its error envelope
C28_Witness ==
    /\ ~demoMode
    /\ check = "ok"
    /\ spc = "serving"
    /\ calls >= 2
    /\ response = Reply(Request("mcp__list_tables", ""),
                        << "Error listing tables: connection refused" >>, TRUE)

(* ---------------------------------------------------------------------- *)
(* GitHub server: properties                                               *)
(* ---------------------------------------------------------------------- *)
\* C29: one call of summarize_pr_diff sends at most one comment; the comment is
\* sent in the step in which the file list arrived, the pull request having
\* arrived before, and only when post_comment was true or left out; a call that
\* succeeded with post_comment left out has posted; with post_comment false
\* nothing is ever posted.
C29_AtMostOneCommentAfterBothFetches ==
    /\ [](/\ posts <= 1
          /\ posts = 1 => /\ gargs.post_comment # "false"
                          /\ pr \in PullRequests
                          /\ files.ok
                          /\ posted = finalComment(Summary(pr, files.items))
          /\ gargs.post_comment = "false" => (posts = 0 /\ posted = None)
          /\ (gpc = "done" /\ ~genvelope.isError /\ gargs.post_comment # "false") =>
                posts = 1
          /\ (gpc = "done" /\ ~files.ok) => (posts = 0 /\ genvelope.isError))
    /\ [][posts' # posts =>
            /\ posts' = posts + 1
            /\ gpc = "getPullRequestFiles"
            /\ pr \in PullRequests
            /\ files'.ok]_vars

\* the default: post_comment left out, both fetches succeeded, one comment sent
C29_Witness ==
    /\ gpc = "done"
    /\ gargs.post_comment = None
    /\ ~genvelope.isError
    /\ posts = 1
    /\ Len(files.items) = 2
====
